---- MODULE Spec2Model ----
(***************************************************************************)
(* Module loader and interactive dispatch loop of ipncidr.                 *)
(*                                                                         *)
(*   module_loader.py  BinaryChecker (prerequisite gate), ModuleLoader     *)
(*                     (_load_modules walk, _add_module_to_dict extraction,*)
(*                     display_help)                                       *)
(*   main.py           main(): the menu loop over input()                  *)
(*                                                                         *)
(* One action per iteration of the walk and one action per input() read of *)
(* the menu loop.  Python objects are records, dicts are functions plus    *)
(* their insertion order, exceptions are strings naming the class raised.  *)
(***************************************************************************)
EXTENDS Integers, Sequences, FiniteSets, TLC

\* ------------------------------------------------------------------------
\* Bounds of the model
\* ------------------------------------------------------------------------

\* number of source files placed under the modules directory
MaxFiles == 3

\* number of binaries a BinaryChecker is constructed with when called directly
MaxRequired == 2

\* ------------------------------------------------------------------------
\* Python values
\* ------------------------------------------------------------------------

\* inspect.Parameter.empty: the default of a parameter that declares none
Empty == "<empty>"

\* None
None == "<None>"

NoExc == "none"

\* the classes `except Exception` catches, among the exceptions of the model
ExceptionClasses ==
    {"SyntaxError", "RuntimeError", "TypeError", "ValueError", "IndexError",
     "KeyError", "AttributeError", "OSError"}

Param(n, d) == [name |-> n, default |-> d]

\* inspect.signature(object.__init__): (self, /, *args, **kwargs)
ObjectInit == <<Param("self", Empty), Param("args", Empty), Param("kwargs", Empty)>>

\* a function of a class: the signature of the bound method, the exception a
\* call raises (if any), and its result, or the message of that exception
Method(n, ps, exc, val, doc) ==
    [name |-> n, kind |-> "function", sig |-> NoExc, params |-> ps, exc |-> exc,
     value |-> val, doc |-> doc]

\* a function the class body wraps in @classmethod: read from the class it is
\* a bound method, which inspect.isfunction rejects
ClassMethod(n, ps, exc, val, doc) ==
    [name |-> n, kind |-> "classmethod", sig |-> NoExc, params |-> ps, exc |-> exc,
     value |-> val, doc |-> doc]

\* a builtin held as a class attribute (smallest = min): callable on the
\* instance, not a function for inspect.isfunction, and inspect.signature
\* raises ValueError("no signature found for builtin ...")
Builtin(n, val, doc) ==
    [name |-> n, kind |-> "builtin", sig |-> "ValueError", params |-> <<>>, exc |-> NoExc,
     value |-> val, doc |-> doc]

\* A class object as inspect sees it.  module: obj.__module__; declaresInit:
\* the class body has its own __init__; sig: what inspect.signature(obj.__init__)
\* raises, if anything; init: the signature it returns; ctor: what obj(), the
\* call without arguments, raises, if anything; functions: the functions the
\* class body defines, in the (name) order of inspect.getmembers, as bound on an
\* instance.
Class(n, mod, own, sig, init, ctor, fns, doc) ==
    [kind |-> "class", name |-> n, module |-> mod, declaresInit |-> own,
     sig |-> sig, init |-> init, ctor |-> ctor, functions |-> fns, doc |-> doc]

Function(n, mod, doc) == [kind |-> "function", name |-> n, module |-> mod, doc |-> doc]

Other(n) == [kind |-> "other", name |-> n]

InitFn == Method("__init__", <<>>, NoExc, None, None)

\* ------------------------------------------------------------------------
\* The files that can be placed under the modules directory.  members is
\* inspect.getmembers(module), which is sorted by name.
\* ------------------------------------------------------------------------

SourceFile(dir, stem, ext, exec, members) ==
    [dir |-> dir, stem |-> stem, ext |-> ext, exec |-> exec, members |-> members]

WireGuardManager ==
    Class("WireGuardManager", "wg", TRUE, NoExc, <<Param("self", Empty)>>, NoExc,
          <<InitFn,
            Method("_run", <<Param("cmd", Empty)>>, NoExc, "out", None),
            Method("add_peer", <<Param("a", Empty), Param("b", "5")>>, NoExc, "added", "Add a peer."),
            Method("down", <<>>, "RuntimeError", "wg0 is not up", "Bring the interface down."),
            Method("get_status", <<>>, NoExc, "wg0: up", "Show the status."),
            Method("up", <<>>, NoExc, None, None)>>,
          "Manage WireGuard.")

\* a class with no __init__ of its own
Plain ==
    Class("Plain", "net.wg", FALSE, NoExc, ObjectInit, NoExc,
          <<Method("ping", <<>>, NoExc, "pong", None)>>, None)

IptablesManager ==
    Class("IptablesManager", "iptables_manager", TRUE, NoExc, <<Param("self", Empty)>>, NoExc,
          <<InitFn, Method("list_rules", <<>>, NoExc, "rules", "List rules.")>>,
          "Manage iptables.")

PAMUserManager ==
    Class("PAMUserManager", "user_manager", TRUE, NoExc,
          <<Param("self", Empty), Param("username", Empty), Param("password", Empty),
            Param("shell", "/bin/bash")>>, "TypeError",
          <<InitFn, Method("create_user", <<>>, NoExc, None, None),
            Builtin("smallest", "0", None)>>, None)

\* a constructor whose receiver is not named self
Session ==
    Class("Session", "user_manager", TRUE, NoExc, <<Param("this", Empty)>>, NoExc,
          <<InitFn, Method("close", <<>>, NoExc, None, None)>>, None)

\* a class whose public methods are all class methods
IPAddressManager ==
    Class("IPAddressManager", "ip_list_generator", TRUE, NoExc, <<Param("self", Empty)>>,
          NoExc,
          <<InitFn,
            ClassMethod("sort_ips", <<Param("ip_list", Empty)>>, NoExc, "sorted",
                        "Sorts a list of IP addresses.")>>,
          "Manage IP addresses.")

\* from modules.iptables.iptables_manager import IptablesManager, as another
\* unit's namespace holds it
ImportedIptablesManager ==
    [IptablesManager EXCEPT !.module = "modules.iptables.iptables_manager"]

\* all-default constructor that raises when called
Broken ==
    Class("Broken", "user_manager", TRUE, NoExc,
          <<Param("self", Empty), Param("path", "/etc")>>, "OSError",
          <<InitFn>>, None)

\* a class the extraction constructs before it reaches Opaque
Cache ==
    Class("Cache", "odd", TRUE, NoExc, <<Param("self", Empty)>>, NoExc,
          <<InitFn, Method("clear", <<>>, NoExc, None, None)>>, None)

\* __init__ = None: inspect.signature raises TypeError
Opaque ==
    Class("Opaque", "odd", TRUE, "TypeError", <<>>, NoExc, <<>>, None)

FileDefs ==
    [f \in {"net/wg.py", "net.wg.py", "iptables_manager.py", "bad.py", "boom.py",
            "pam/user_manager.py", "odd.py", "net/ip_list_generator.py",
            "net/__init__.py", "pam/__init__.py"} |->
       CASE f = "net/wg.py" ->
              SourceFile(<<"net">>, "wg", ".py", NoExc,
                  <<ImportedIptablesManager,
                    Class("Path", "pathlib", TRUE, NoExc, ObjectInit, NoExc, <<>>, None),
                    WireGuardManager,
                    Function("helper", "wg", "Help text."),
                    Other("os"),
                    Function("run", "subprocess", None)>>)
         [] f = "net.wg.py" ->
              SourceFile(<<>>, "net.wg", ".py", NoExc, <<Plain>>)
         [] f = "iptables_manager.py" ->
              SourceFile(<<>>, "iptables_manager", ".py", NoExc, <<IptablesManager>>)
         [] f = "bad.py" ->
              SourceFile(<<>>, "bad", ".py", "SyntaxError", <<>>)
         [] f = "boom.py" ->
              SourceFile(<<>>, "boom", ".py", "RuntimeError", <<>>)
         [] f = "pam/user_manager.py" ->
              SourceFile(<<"pam">>, "user_manager", ".py", NoExc,
                  <<Broken, PAMUserManager, Session,
                    Function("_hash", "user_manager", None)>>)
         [] f = "odd.py" ->
              SourceFile(<<>>, "odd", ".py", NoExc,
                  <<Cache, Opaque, Function("tail", "odd", "Tail a file.")>>)
         [] f = "net/ip_list_generator.py" ->
              SourceFile(<<"net">>, "ip_list_generator", ".py", NoExc, <<IPAddressManager>>)
         [] f = "net/__init__.py" ->
              SourceFile(<<"net">>, "__init__", ".py", NoExc, <<>>)
         [] f = "pam/__init__.py" ->
              SourceFile(<<"pam">>, "__init__", ".py", NoExc, <<>>)]

FileIds == DOMAIN FileDefs

InitFileOf(d) == IF d = <<"net">> THEN "net/__init__.py" ELSE "pam/__init__.py"

\* file.endswith('.py') and file != '__init__.py'
Eligible(f) == FileDefs[f].ext = ".py" /\ FileDefs[f].stem # "__init__"

SourceFiles == {f \in FileIds : Eligible(f)}

\* os.path.splitext(file)[0]
ModuleName(f) == FileDefs[f].stem

RECURSIVE JoinDots(_)
JoinDots(parts) ==
    IF parts = <<>> THEN ""
    ELSE IF Len(parts) = 1 THEN parts[1]
    ELSE parts[1] \o "." \o JoinDots(Tail(parts))

\* os.path.relpath(module_path, base_path).replace(os.path.sep, '.')
UniqueKey(f) == JoinDots(Append(FileDefs[f].dir, FileDefs[f].stem \o FileDefs[f].ext))

\* ------------------------------------------------------------------------
\* BinaryChecker: the prerequisite gate
\* ------------------------------------------------------------------------

\* ModuleLoader.required_binaries_per_module
RequiredBinariesPerModule ==
    [iptables_manager |-> <<"iptables">>, ipset_manager |-> <<"ipset">>, ssh |-> <<"ssh">>]

\* required_binaries_per_module.get(module_name, [])
RequiredFor(module_name) ==
    IF module_name \in DOMAIN RequiredBinariesPerModule
    THEN RequiredBinariesPerModule[module_name]
    ELSE <<>>

\* what platform.system() can return
Platforms == {"Linux", "Darwin", "Windows", "FreeBSD"}

\* what the operator can answer to the install prompt
Answers == {"y", " Y ", "n", ""}

\* mutant of StripLower: the empty line counts as a yes
StripLower_EnterIsYes(s) == IF s \in {"y", "Y", " Y ", " y ", ""} THEN "y" ELSE s

\* input(...).strip().lower()
StripLower(s) == IF s \in {"y", "Y", " Y ", " y "} THEN "y" ELSE s

\* the binaries whose presence on the search path is drawn per gate run
Binaries == {"iptables"}

\* mutant of InstallBinary: the exit status of the command is not looked at
InstallBinary_IgnoreStatus(binary, os_type, status) ==
    LET command == IF os_type = "Linux" THEN <<"sudo", "apt-get", "install", "-y", binary>>
                   ELSE IF os_type = "Darwin" THEN <<"brew", "install", binary>>
                   ELSE <<>>
    IN IF command = <<>>
       THEN [exc |-> "RuntimeError", commands |-> <<>>]
       ELSE [exc |-> NoExc, commands |-> <<[argv |-> command, status |-> status]>>]

\* BinaryChecker.install_binary: the command run (none on an unsupported platform)
\* and the exception raised, given the exit status of the command
InstallBinary(binary, os_type, status) ==
    LET command == IF os_type = "Linux" THEN <<"sudo", "apt-get", "install", "-y", binary>>
                   ELSE IF os_type = "Darwin" THEN <<"brew", "install", binary>>
                   ELSE <<>>
    IN IF command = <<>>
       THEN [exc |-> "RuntimeError", commands |-> <<>>]
       ELSE [exc |-> IF status = 0 THEN NoExc ELSE "RuntimeError",
             commands |-> <<[argv |-> command, status |-> status]>>]

\* for binary in missing_binaries: self.install_binary(binary)
RECURSIVE InstallAll(_, _, _, _)
InstallAll(missing, i, os_type, statuses) ==
    IF i > Len(missing) THEN [exc |-> NoExc, commands |-> <<>>]
    ELSE LET one == InstallBinary(missing[i], os_type, statuses[i])
         IN IF one.exc # NoExc THEN one
            ELSE LET rest == InstallAll(missing, i + 1, os_type, statuses)
                 IN [exc |-> rest.exc, commands |-> one.commands \o rest.commands]

\* BinaryChecker.check_binaries, with shutil.which, the operator's answer,
\* platform.system() and the exit statuses of the install commands as inputs
CheckBinaries(required, resolvable, answer, os_type, statuses) ==
    LET missing == SelectSeq(required, LAMBDA b : b \notin resolvable)
    IN IF missing = <<>>
       THEN [exc |-> NoExc, missing |-> missing, prompted |-> FALSE, answer |-> None,
             commands |-> <<>>]
       ELSE IF StripLower(answer) = "y"
       THEN LET r == InstallAll(missing, 1, os_type, statuses)
            IN [exc |-> r.exc, missing |-> missing, prompted |-> TRUE, answer |-> answer,
                commands |-> r.commands]
       ELSE [exc |-> "RuntimeError", missing |-> missing, prompted |-> TRUE,
             answer |-> answer, commands |-> <<>>]

\* ModuleLoader._check_module_binaries
CheckModuleBinaries(module_name, resolvable, answer, os_type, statuses) ==
    LET required_binaries == RequiredFor(module_name)
    IN IF required_binaries # <<>>
       THEN CheckBinaries(required_binaries, resolvable, answer, os_type, statuses)
       ELSE [exc |-> NoExc, missing |-> <<>>, prompted |-> FALSE, answer |-> None,
             commands |-> <<>>]

\* ------------------------------------------------------------------------
\* ModuleLoader._add_module_to_dict: capability extraction
\* ------------------------------------------------------------------------

\* mutant of HasRequiredParams: only the last parameter is looked at
HasRequiredParams_LastOnly(init_sig) ==
    /\ init_sig # <<>>
    /\ init_sig[Len(init_sig)].default = Empty
    /\ init_sig[Len(init_sig)].name # "self"

\* any(param.default == param.empty and param.name != 'self' for param in ...)
HasRequiredParams(init_sig) ==
    \E i \in 1..Len(init_sig) : init_sig[i].default = Empty /\ init_sig[i].name # "self"

\* except Exception around obj() and the method catalogue
InstantiateExcept(e) == e \in ExceptionClasses

\* mutant of DefinedIn: every class of the namespace passes
DefinedIn_Any(obj, f) == obj.kind = "class"

\* obj.__module__ == module.__name__
DefinedIn(obj, f) == obj.module = ModuleName(f)

\* the instance obj() returns during the extraction of file f
Instance(f, cls) == [file |-> f, cls |-> cls.name]

\* inspect.getmembers(obj, inspect.isfunction): plain functions and static
\* methods, whatever their name; a class method is not a function
IsFunctionMembers(cls) == SelectSeq(cls.functions, LAMBDA m : m.kind = "function")

\* class_methods: one entry per member of inspect.getmembers(obj, inspect.isfunction)
ClassMethods(cls) ==
    [i \in 1..Len(IsFunctionMembers(cls)) |->
        [name |-> IsFunctionMembers(cls)[i].name, help |-> IsFunctionMembers(cls)[i].doc]]

\* the loop over inspect.getmembers(module): module_dict so far, the classes
\* whose constructor was called, and the exception that ended the loop
RECURSIVE ExtractMembers(_, _, _)
ExtractMembers(f, i, acc) ==
    LET members == FileDefs[f].members
    IN IF i > Len(members) THEN acc
       ELSE LET obj == members[i]
            IN IF obj.kind = "class"
               THEN IF DefinedIn(obj, f)
                    THEN IF obj.sig # NoExc
                         THEN [acc EXCEPT !.exc = obj.sig]
                         ELSE IF ~HasRequiredParams(obj.init)
                         THEN IF obj.ctor = NoExc
                              THEN ExtractMembers(f, i + 1,
                                     [acc EXCEPT
                                        !.called = Append(@, obj.name),
                                        !.dict = Append(@,
                                            [name |-> obj.name,
                                             content |-> [instance |-> Instance(f, obj),
                                                          methods |-> ClassMethods(obj),
                                                          help |-> obj.doc]])])
                              ELSE IF InstantiateExcept(obj.ctor)
                              THEN ExtractMembers(f, i + 1,
                                     [acc EXCEPT !.called = Append(@, obj.name),
                                                 !.warned = Append(@, obj.name)])
                              ELSE [acc EXCEPT !.called = Append(@, obj.name),
                                               !.exc = obj.ctor]
                         ELSE ExtractMembers(f, i + 1,
                                [acc EXCEPT !.warned = Append(@, obj.name)])
                    ELSE ExtractMembers(f, i + 1, acc)
               ELSE IF obj.kind = "function"
               THEN ExtractMembers(f, i + 1,
                      [acc EXCEPT !.dict = Append(@,
                          [name |-> obj.name,
                           content |-> [function |-> [file |-> f, name |-> obj.name],
                                        help |-> obj.doc]])])
               ELSE ExtractMembers(f, i + 1, acc)

\* mutant of AddModuleToDict: what was gathered before an exception is kept
AddModuleToDict_KeepsPartial(f) ==
    [ExtractMembers(f, 1, [dict |-> <<>>, called |-> <<>>, warned |-> <<>>, exc |-> NoExc])
        EXCEPT !.exc = NoExc]

\* module_dict is a local: line 172 stores it only when the loop over the
\* members has ended without an exception
AddModuleToDict(f) ==
    ExtractMembers(f, 1, [dict |-> <<>>, called |-> <<>>, warned |-> <<>>, exc |-> NoExc])

\* ------------------------------------------------------------------------
\* ModuleLoader._load_modules: one iteration of the walk
\* ------------------------------------------------------------------------

\* mutant of LoadExcept: the handler names SyntaxError only
LoadExcept_SyntaxOnly(e) == e = "SyntaxError"

\* except Exception around the load and the extraction
LoadExcept(e) == e \in ExceptionClasses

\* mutant of LoadOne: the file is executed whatever its gate raised
LoadOne_IgnoresGate(f, g) ==
    IF FileDefs[f].exec # NoExc
    THEN [exc |-> FileDefs[f].exec, at |-> "exec", caught |-> LoadExcept(FileDefs[f].exec),
          executed |-> TRUE, called |-> <<>>, dict |-> <<>>]
    ELSE LET x == AddModuleToDict(f)
         IN [exc |-> x.exc, at |-> IF x.exc = NoExc THEN "none" ELSE "extract",
             caught |-> x.exc # NoExc /\ LoadExcept(x.exc),
             executed |-> TRUE, called |-> x.called, dict |-> x.dict]

\* The body of the loop for an eligible file, given the result g of its gate:
\* the exception raised (exc), where (at), whether the loop's try catches it,
\* whether the file's source was executed, the constructors called and the
\* module_dict to store under the file's key.
LoadOne(f, g) ==
    IF g.exc # NoExc
    THEN [exc |-> g.exc, at |-> "gate", caught |-> FALSE, executed |-> FALSE,
          called |-> <<>>, dict |-> <<>>]
    ELSE IF FileDefs[f].exec # NoExc
    THEN [exc |-> FileDefs[f].exec, at |-> "exec", caught |-> LoadExcept(FileDefs[f].exec),
          executed |-> TRUE, called |-> <<>>, dict |-> <<>>]
    ELSE LET x == AddModuleToDict(f)
         IN [exc |-> x.exc, at |-> IF x.exc = NoExc THEN "none" ELSE "extract",
             caught |-> x.exc # NoExc /\ LoadExcept(x.exc),
             executed |-> TRUE, called |-> x.called, dict |-> x.dict]

\* ------------------------------------------------------------------------
\* State
\* ------------------------------------------------------------------------

VARIABLES
    tree,              \* the files under the modules directory
    visited,           \* the files the walk has reached
    pc,                \* "load", the prompt main() is blocked on, "exited", "crashed"
    err,               \* the exception that ended the process, and where it was raised
    modules_dict,      \* loader.modules_dict['app']['module']: key -> module_dict
    mod_order,         \* its keys in insertion order
    module_instances,  \* main.module_instances: class name -> instance
    inst_order,        \* its keys in insertion order
    gate_log,          \* per gated file, what its gate did
    executed,          \* the files whose source exec_module has run
    loaded,            \* the files whose entry was stored ("Successfully loaded")
    failed,            \* the files logged as "Failed to load module"
    ctor_calls,        \* the zero-argument constructor calls made by the extraction
    listing,           \* the numbered list the current prompt was printed with
    nav,               \* the locals of main() that the current prompt depends on
    last_input,        \* the line read by the latest input() of main()
    out,               \* what the latest step printed last
    calls,             \* the method invocations made by the latest step
    config,            \* the content of config.json (shared.SETTINGS_FILE)
    probe              \* the latest call made on BinaryChecker or on shared directly

vars == <<tree, visited, pc, err, modules_dict, mod_order, module_instances, inst_order,
          gate_log, executed, loaded, failed, ctor_calls, listing, nav, last_input, out,
          calls, config, probe>>

\* what main() and the loader never touch
sharedVars == <<config, probe>>

loaderVars == <<modules_dict, mod_order, gate_log, executed, loaded, failed, ctor_calls>>

loopVars == <<module_instances, inst_order, listing, nav, last_input, out, calls>>

NoErr == [exc |-> NoExc, at |-> "none"]

\* shared.default_settings, which load_settings() writes when config.json is
\* missing (shared.py runs it when main.py imports the module)
DefaultSettings == [modules |-> <<>>]

NoProbe == [fn |-> None]

NoNav == [module |-> None, class |-> None, method |-> None, param |-> 0,
          args |-> <<>>, kwargs |-> <<>>]

Say(msg, detail) == [msg |-> msg, detail |-> detail]

\* ModuleLoader._ensure_init_files: every directory holds an __init__.py
EnsureInitFiles(files) ==
    files \cup {InitFileOf(FileDefs[f].dir) : f \in {g \in files : FileDefs[g].dir # <<>>}}

\* main.module_instances holding one instance of each class named in order
Stored(order) ==
    [c \in {order[i] : i \in 1..Len(order)} |->
        IF c = "WireGuardManager" THEN Instance("net/wg.py", WireGuardManager)
        ELSE Instance("pam/user_manager.py", PAMUserManager)]

\* main() is entered with the instances of order in module_instances
Start(order) ==
    /\ \E files \in SUBSET SourceFiles :
          /\ Cardinality(files) <= MaxFiles
          /\ tree = EnsureInitFiles(files)
    /\ visited = {}
    /\ pc = "load"
    /\ err = NoErr
    /\ modules_dict = <<>>
    /\ mod_order = <<>>
    /\ module_instances = Stored(order)
    /\ inst_order = order
    /\ gate_log = <<>>
    /\ executed = {}
    /\ loaded = {}
    /\ failed = {}
    /\ ctor_calls = <<>>
    /\ listing = <<>>
    /\ nav = NoNav
    /\ last_input = None
    /\ out = Say("start", None)
    /\ calls = <<>>
    /\ config = DefaultSettings
    /\ probe = NoProbe

\* module_instances = {} (main.py, line 14)
Init == Start(<<>>)

\* what module_instances can hold when main() is entered
StoredOrders == {<<>>, <<"PAMUserManager", "WireGuardManager">>}

InitRun == \E order \in StoredOrders : Start(order)

\* d[k] = v on a dict held as a function
Put(d, k, v) == [x \in DOMAIN d \cup {k} |-> IF x = k THEN v ELSE d[x]]

\* the insertion order of the keys after d[k] = v
PutOrder(order, d, k) == IF k \in DOMAIN d THEN order ELSE Append(order, k)

\* ------------------------------------------------------------------------
\* The walk of ModuleLoader._load_modules (run by ModuleLoader.__init__,
\* which main() calls before its loop)
\* ------------------------------------------------------------------------

Started(d) == \E g \in visited : FileDefs[g].dir = d

Pending(d) == \E g \in tree \ visited : FileDefs[g].dir = d

\* os.walk, top down: the files of the root before those of its directories,
\* one directory after the other, the files of a directory in any order
WalkNext(f) ==
    /\ f \in tree \ visited
    /\ FileDefs[f].dir # <<>> => ~Pending(<<>>)
    /\ \A g \in tree \ visited :
          (FileDefs[g].dir # FileDefs[f].dir /\ FileDefs[g].dir # <<>>)
              => ~Started(FileDefs[g].dir)

\* the inputs of one gate run
GateInputs(f) ==
    IF RequiredFor(ModuleName(f)) = <<>>
    THEN {[resolvable |-> {}, answer |-> None, os_type |-> "Linux", statuses |-> <<>>]}
    ELSE [resolvable : SUBSET Binaries, answer : Answers, os_type : Platforms,
          statuses : [1..Len(RequiredFor(ModuleName(f))) -> {0, 1}]]

GateOf(f, in) ==
    CheckModuleBinaries(ModuleName(f), in.resolvable, in.answer, in.os_type, in.statuses)

LogGate(f, g) ==
    IF RequiredFor(ModuleName(f)) = <<>> THEN gate_log ELSE Put(gate_log, f, g)

CtorCalls(f, called) == [i \in 1..Len(called) |-> [file |-> f, class |-> called[i]]]

\* a file the loop passes over: not .py, or __init__.py
VisitSkip(f) ==
    /\ pc = "load"
    /\ WalkNext(f)
    /\ ~Eligible(f)
    /\ visited' = visited \cup {f}
    /\ UNCHANGED <<tree, pc, err, loaderVars, loopVars, sharedVars>>

\* an exception leaves _load_modules: ModuleLoader(...) raises in main(),
\* which has no handler
VisitAbort(f) ==
    /\ pc = "load"
    /\ WalkNext(f)
    /\ Eligible(f)
    /\ \E in \in GateInputs(f) :
          LET g == GateOf(f, in)
              r == LoadOne(f, g)
          IN /\ r.exc # NoExc
             /\ ~r.caught
             /\ visited' = visited \cup {f}
             /\ gate_log' = LogGate(f, g)
             /\ executed' = IF r.executed THEN executed \cup {f} ELSE executed
             /\ ctor_calls' = ctor_calls \o CtorCalls(f, r.called)
             /\ err' = [exc |-> r.exc, at |-> r.at]
             /\ pc' = "crashed"
    /\ UNCHANGED <<tree, modules_dict, mod_order, loaded, failed, loopVars, sharedVars>>

\* the except clause of the loop logs the failure; the walk goes on
VisitFailed(f) ==
    /\ pc = "load"
    /\ WalkNext(f)
    /\ Eligible(f)
    /\ \E in \in GateInputs(f) :
          LET g == GateOf(f, in)
              r == LoadOne(f, g)
          IN /\ r.exc # NoExc
             /\ r.caught
             /\ visited' = visited \cup {f}
             /\ gate_log' = LogGate(f, g)
             /\ executed' = IF r.executed THEN executed \cup {f} ELSE executed
             /\ ctor_calls' = ctor_calls \o CtorCalls(f, r.called)
             /\ failed' = failed \cup {f}
    /\ UNCHANGED <<tree, pc, err, modules_dict, mod_order, loaded, loopVars, sharedVars>>

\* the file is loaded and its module_dict stored under its key
VisitLoaded(f) ==
    /\ pc = "load"
    /\ WalkNext(f)
    /\ Eligible(f)
    /\ \E in \in GateInputs(f) :
          LET g == GateOf(f, in)
              r == LoadOne(f, g)
          IN /\ r.exc = NoExc
             /\ visited' = visited \cup {f}
             /\ gate_log' = LogGate(f, g)
             /\ executed' = executed \cup {f}
             /\ ctor_calls' = ctor_calls \o CtorCalls(f, r.called)
             /\ modules_dict' = Put(modules_dict, UniqueKey(f), r.dict)
             /\ mod_order' = PutOrder(mod_order, modules_dict, UniqueKey(f))
             /\ loaded' = loaded \cup {f}
    /\ UNCHANGED <<tree, pc, err, failed, loopVars, sharedVars>>

\* the walk is over: ModuleLoader(...) returns and main() prints its menu
WalkDone ==
    /\ pc = "load"
    /\ visited = tree
    /\ pc' = "menu"
    /\ out' = Say("menu", None)
    /\ UNCHANGED <<tree, visited, err, loaderVars, module_instances, inst_order, listing,
                   nav, last_input, calls, sharedVars>>

\* ------------------------------------------------------------------------
\* main(): helpers of the menu loop
\* ------------------------------------------------------------------------

\* what the operator can type at a prompt
Inputs == {"1", "2", "3", "4", "5", "0", "-1", "", "x", "menu", "back"}

\* int(s) for the inputs int() accepts; it raises ValueError on the others
IntTable == [s \in {"1", "2", "3", "4", "5", "0", "-1"} |->
               CASE s = "1" -> 1 [] s = "2" -> 2 [] s = "3" -> 3 [] s = "4" -> 4
                 [] s = "5" -> 5 [] s = "0" -> 0 [] s = "-1" -> -1]

\* items[i] on a Python list: a negative index counts from the end
PyIndex(items, i) ==
    LET n == Len(items)
    IN IF 0 <= i /\ i < n THEN [exc |-> NoExc, item |-> items[i + 1]]
       ELSE IF -n <= i /\ i < 0 THEN [exc |-> NoExc, item |-> items[n + i + 1]]
       ELSE [exc |-> "IndexError", item |-> None]

\* mutant of Select: the number typed is used as the index
Select_NoDecrement(items, s) ==
    IF s \notin DOMAIN IntTable
    THEN [exc |-> "ValueError", item |-> None]
    ELSE PyIndex(items, IntTable[s])

\* choice = int(input(...)) - 1; selected = items[choice]
Select(items, s) ==
    IF s \notin DOMAIN IntTable
    THEN [exc |-> "ValueError", item |-> None]
    ELSE PyIndex(items, IntTable[s] - 1)

\* mutant of SelectExcept: the handler names ValueError only
SelectExcept_ValueOnly(e) == e = "ValueError"

\* except (ValueError, IndexError) of the selection prompts
SelectExcept(e) == e \in {"ValueError", "IndexError"}

\* mutant of MethodSelectExcept: ValueError is left out of the handler
MethodSelectExcept_NoValueError(e) == e \in {"IndexError", "AttributeError"}

\* except (ValueError, IndexError, AttributeError) of the method selection
MethodSelectExcept(e) == e \in {"ValueError", "IndexError", "AttributeError"}

\* mutant of InvokeExcept: the handler names TypeError and ValueError only
InvokeExcept_BindingOnly(e) == e \in {"TypeError", "ValueError"}

\* except Exception around the invocation
InvokeExcept(e) == e \in ExceptionClasses

\* name.startswith('_'), over the names of the model
StartsWithUnderscore(name) == name \in {"__init__", "_run", "_hash"}

\* every key the files of the model can be stored under, in the order of sorted()
KeysSorted ==
    <<"bad.py", "boom.py", "iptables_manager.py", "net.ip_list_generator.py", "net.wg.py",
      "odd.py", "pam.user_manager.py">>

\* sorted(loader.modules_dict['app']['module'].keys())
Sorted(keys) == SelectSeq(KeysSorted, LAMBDA k : k \in keys)

Names(module_content) == [i \in 1..Len(module_content) |-> module_content[i].name]

\* module_content[name]
Content(module_content, name) ==
    (CHOOSE e \in {module_content[i] : i \in 1..Len(module_content)} : e.name = name).content

\* [name for name, content in module_content.items() if 'methods' in content]
ClassesOf(module_content) ==
    Names(SelectSeq(module_content, LAMBDA e : "methods" \in DOMAIN e.content))

\* [name for name, content in module_content.items() if 'function' in content]
FunctionsOf(module_content) ==
    Names(SelectSeq(module_content, LAMBDA e : "function" \in DOMAIN e.content))

\* [name for name in class_content['methods'] if not name.startswith('_')]
PublicMethods(class_content) ==
    Names(SelectSeq(class_content.methods, LAMBDA m : ~StartsWithUnderscore(m.name)))

\* the class of an instance
ClassOf(instance) ==
    CHOOSE c \in {FileDefs[instance.file].members[i] :
                     i \in 1..Len(FileDefs[instance.file].members)} :
        c.kind = "class" /\ c.name = instance.cls

\* [m for m in dir(instance) if not m.startswith('_') and callable(getattr(instance, m))]
CallableNames(instance) ==
    Names(SelectSeq(ClassOf(instance).functions, LAMBDA m : ~StartsWithUnderscore(m.name)))

\* getattr(instance, selected_method)
MethodOf(instance, name) ==
    CHOOSE m \in {ClassOf(instance).functions[i] :
                     i \in 1..Len(ClassOf(instance).functions)} : m.name = name

\* the parameters the loop prompts for: all but one named self
Prompted(params) == SelectSeq(params, LAMBDA q : q.name # "self")

\* mutant of OrDefault: the line read is taken as it is
OrDefault_Input(inp, default_val) == inp

\* input(...) or default_val: the empty line is falsy
OrDefault(inp, default_val) == IF inp # "" THEN inp ELSE default_val

\* the loop of display_help over module_content.items(): one item per class
\* and per public function, the private methods of a class left out
HelpItems(module_content) ==
    LET Shown == SelectSeq(module_content,
                    LAMBDA e : \/ "methods" \in DOMAIN e.content
                               \/ /\ "function" \in DOMAIN e.content
                                  /\ ~StartsWithUnderscore(e.name))
    IN [i \in 1..Len(Shown) |->
          IF "methods" \in DOMAIN Shown[i].content
          THEN [class |-> Shown[i].name, help |-> Shown[i].content.help,
                methods |-> SelectSeq(Shown[i].content.methods,
                                LAMBDA m : ~StartsWithUnderscore(m.name))]
          ELSE [function |-> Shown[i].name, help |-> Shown[i].content.help]]

\* mutant of DisplayHelp: a unit whose help was just shown is not shown again
DisplayHelp_ShownOnce(module_name) ==
    IF module_name \notin DOMAIN modules_dict \/ out.msg = "Help Documentation"
    THEN <<[text |-> "Module not found."]>>
    ELSE HelpItems(modules_dict[module_name])

\* ModuleLoader.display_help([module_name]): the lines printed
DisplayHelp(module_name) ==
    IF module_name \notin DOMAIN modules_dict
    THEN <<[text |-> "Module not found."]>>
    ELSE HelpItems(modules_dict[module_name])

\* mutant of RunListing: the classes catalogued for the first unit are offered
RunListing_Catalogue ==
    IF mod_order = <<>> THEN inst_order ELSE ClassesOf(modules_dict[mod_order[1]])

\* list(module_instances.keys()): the classes option 3 offers
RunListing == inst_order

\* mutant of Option: "0" leaves the loop as well
Option_ZeroExits(choice) ==
    CASE choice = "1" -> "list"
      [] choice = "2" -> "initialize"
      [] choice = "3" -> "run"
      [] choice = "4" -> "help"
      [] choice \in {"5", "0"} -> "exit"
      [] OTHER -> "invalid"

\* the branch of the if/elif chain on choice
Option(choice) ==
    CASE choice = "1" -> "list"
      [] choice = "2" -> "initialize"
      [] choice = "3" -> "run"
      [] choice = "4" -> "help"
      [] choice = "5" -> "exit"
      [] OTHER -> "invalid"

\* mutant of LoopFrame: a step of the loop drops the registry
LoopFrame_DropsRegistry ==
    /\ modules_dict' = <<>>
    /\ mod_order' = <<>>
    /\ UNCHANGED <<tree, visited, gate_log, executed, loaded, failed, ctor_calls,
                   module_instances, inst_order, sharedVars>>

\* what no statement of the loop assigns: the loader's state and, outside
\* line 140 (never reached), module_instances
LoopFrame ==
    UNCHANGED <<tree, visited, loaderVars, module_instances, inst_order, sharedVars>>

\* mutant of ResultMessage: the result is printed whatever it is
ResultMessage_Always(result) == "Result"

\* if result is not None: print(f"Result: {result}"), else the notice
ResultMessage(result) ==
    IF result # None THEN "Result" ELSE "Result: No output returned."

\* mutant of ToMenu: the locals of the flow just left are kept
ToMenu_KeepsSelection(msg, detail) ==
    /\ pc' = "menu"
    /\ err' = err
    /\ out' = Say(msg, detail)
    /\ listing' = listing
    /\ nav' = nav

\* back at the top of the while loop: the menu is printed
ToMenu(msg, detail) ==
    /\ pc' = "menu"
    /\ err' = err
    /\ out' = Say(msg, detail)
    /\ listing' = <<>>
    /\ nav' = NoNav

\* an exception no handler of main() catches ends the process
Crash(e, at) ==
    /\ pc' = "crashed"
    /\ err' = [exc |-> e, at |-> at]
    /\ out' = Say("Traceback", e)
    /\ listing' = <<>>
    /\ nav' = NoNav

\* the next numbered prompt
Prompt(p, items, n) ==
    /\ pc' = p
    /\ err' = err
    /\ out' = Say(p, items)
    /\ listing' = items
    /\ nav' = n

\* ------------------------------------------------------------------------
\* main(): one action per input() of the menu loop
\* ------------------------------------------------------------------------

\* choice = input("Enter your choice: ") and the branch taken up to its first
\* prompt
Menu(choice) ==
    /\ pc = "menu"
    /\ last_input' = choice
    /\ LET o == Option(choice)
       IN CASE o = "list" ->
                 IF DOMAIN modules_dict # {}
                 THEN Prompt("browse_module", Sorted(DOMAIN modules_dict), NoNav)
                 ELSE ToMenu("No modules were found or loaded.", None)
            [] o = "initialize" -> Prompt("init_module", mod_order, NoNav)
            [] o = "run" ->
                 IF DOMAIN module_instances = {}
                 THEN ToMenu("No modules have been initialized yet.", None)
                 ELSE Prompt("run_class", RunListing, NoNav)
            [] o = "help" -> Prompt("help_module", mod_order, NoNav)
            [] o = "exit" ->
                 /\ pc' = "exited"
                 /\ err' = err
                 /\ out' = Say("Exiting Module Loader Interactive Environment.", None)
                 /\ listing' = <<>>
                 /\ nav' = NoNav
            [] OTHER -> ToMenu("Invalid choice.", None)
    /\ calls' = <<>>
    /\ LoopFrame

\* option 1: "Select a module by number to explore: "
BrowseModule(inp) ==
    /\ pc = "browse_module"
    /\ last_input' = inp
    /\ LET r == Select(listing, inp)
       IN IF r.exc # NoExc
          THEN IF SelectExcept(r.exc)
               THEN ToMenu("Invalid selection.", None)
               ELSE Crash(r.exc, "browse_module")
          ELSE LET module_content == modules_dict[r.item]
                   classes == ClassesOf(module_content)
               IN IF classes # <<>>
                  THEN Prompt("browse_class", classes, [NoNav EXCEPT !.module = r.item])
                  ELSE ToMenu("No classes available to drill down further.",
                              [module |-> r.item, functions |-> FunctionsOf(module_content)])
    /\ calls' = <<>>
    /\ LoopFrame

\* option 1: "Select a class by number to view its methods (or press Enter to skip): "
BrowseClass(inp) ==
    /\ pc = "browse_class"
    /\ last_input' = inp
    /\ LET r == Select(listing, inp)
       IN IF r.exc # NoExc
          THEN IF SelectExcept(r.exc)
               THEN ToMenu("No class selected. Returning to main menu.", None)
               ELSE Crash(r.exc, "browse_class")
          ELSE ToMenu("Methods in class",
                      [module |-> nav.module, class |-> r.item,
                       methods |-> PublicMethods(Content(modules_dict[nav.module], r.item))])
    /\ calls' = <<>>
    /\ LoopFrame

\* option 2: "Select a module by number to initialize: "
InitModule(inp) ==
    /\ pc = "init_module"
    /\ last_input' = inp
    /\ LET r == Select(listing, inp)
       IN IF r.exc # NoExc
          THEN IF SelectExcept(r.exc)
               THEN ToMenu("Invalid selection.", None)
               ELSE Crash(r.exc, "init_module")
          ELSE Prompt("init_class", ClassesOf(modules_dict[r.item]),
                      [NoNav EXCEPT !.module = r.item])
    /\ calls' = <<>>
    /\ LoopFrame

\* option 2: "Select a class by number to initialize: ".  The try block reads
\* class_content['class_ref'], a key no module_dict entry has: the KeyError is
\* not among the exceptions its handler names.  The statements that follow the
\* try block (the constructor prompts and the call) are therefore never reached
\* and have no action here.
InitClass(inp) ==
    /\ pc = "init_class"
    /\ last_input' = inp
    /\ LET r == Select(listing, inp)
           e == IF r.exc # NoExc THEN r.exc
                ELSE IF "class_ref" \notin DOMAIN Content(modules_dict[nav.module], r.item)
                THEN "KeyError"
                ELSE NoExc
       IN IF e # NoExc
          THEN IF SelectExcept(e)
               THEN ToMenu("Invalid selection.", None)
               ELSE Crash(e, "init_class")
          ELSE Prompt("init_param", <<>>, [nav EXCEPT !.class = r.item])
    /\ calls' = <<>>
    /\ LoopFrame

\* option 4: "Select a module by number: " and loader.display_help
HelpModule(inp) ==
    /\ pc = "help_module"
    /\ last_input' = inp
    /\ LET r == Select(listing, inp)
       IN IF r.exc # NoExc
          THEN IF SelectExcept(r.exc)
               THEN ToMenu("Invalid selection.", None)
               ELSE Crash(r.exc, "help_module")
          ELSE ToMenu("Help Documentation", DisplayHelp(r.item))
    /\ calls' = <<>>
    /\ LoopFrame

\* result = method_to_call(*args, **kwargs) and its try block
Invoke(class_name, method_name, args, kwargs) ==
    LET m == MethodOf(module_instances[class_name], method_name)
    IN /\ calls' = <<[instance |-> module_instances[class_name],
                      method |-> method_name, args |-> args, kwargs |-> kwargs]>>
       /\ IF m.exc # NoExc
          THEN IF InvokeExcept(m.exc)
               THEN ToMenu("Error executing the function", m.value)
               ELSE Crash(m.exc, "invoke")
          ELSE ToMenu(ResultMessage(m.value), m.value)

\* option 3: "Select a class by number to execute its methods: "
RunClass(inp) ==
    /\ pc = "run_class"
    /\ last_input' = inp
    /\ LET r == Select(listing, inp)
       IN IF r.exc # NoExc
          THEN IF SelectExcept(r.exc)
               THEN ToMenu("Invalid selection.", None)
               ELSE Crash(r.exc, "run_class")
          ELSE Prompt("run_method", CallableNames(module_instances[r.item]),
                      [NoNav EXCEPT !.class = r.item])
    /\ calls' = <<>>
    /\ LoopFrame

\* option 3: "Select a method by number to execute: "; inspect.signature is
\* called outside any try block; a method with nothing to prompt for is called
\* at once
RunMethod(inp) ==
    /\ pc = "run_method"
    /\ last_input' = inp
    /\ LET r == Select(listing, inp)
       IN IF r.exc # NoExc
          THEN /\ IF MethodSelectExcept(r.exc)
                  THEN ToMenu("Error selecting or executing method", r.exc)
                  ELSE Crash(r.exc, "run_method")
               /\ calls' = <<>>
          ELSE LET m == MethodOf(module_instances[nav.class], r.item)
                   sig == m.params
               IN IF m.sig # NoExc
                  THEN /\ Crash(m.sig, "signature")
                       /\ calls' = <<>>
                  ELSE IF Prompted(sig) = <<>>
                  THEN Invoke(nav.class, r.item, <<>>, <<>>)
                  ELSE /\ Prompt("run_param", <<>>, [nav EXCEPT !.method = r.item, !.param = 1])
                       /\ calls' = <<>>
    /\ LoopFrame

\* option 3: "Enter argument for '<name>': "; after the last one, the call
RunParam(inp) ==
    /\ pc = "run_param"
    /\ last_input' = inp
    /\ LET sig == Prompted(MethodOf(module_instances[nav.class], nav.method).params)
           param == sig[nav.param]
           args == IF param.default = Empty THEN Append(nav.args, inp) ELSE nav.args
           kwargs == IF param.default = Empty THEN nav.kwargs
                     ELSE Append(nav.kwargs,
                            [name |-> param.name,
                             value |-> OrDefault(inp, param.default)])
       IN IF nav.param = Len(sig)
          THEN Invoke(nav.class, nav.method, args, kwargs)
          ELSE /\ Prompt("run_param", <<>>,
                         [nav EXCEPT !.param = @ + 1, !.args = args, !.kwargs = kwargs])
               /\ calls' = <<>>
    /\ LoopFrame

\* ------------------------------------------------------------------------
\* Specifications
\* ------------------------------------------------------------------------

Walk ==
    \E f \in FileIds : VisitSkip(f) \/ VisitAbort(f) \/ VisitFailed(f) \/ VisitLoaded(f)

Next ==
    \/ Walk
    \/ WalkDone
    \/ \E inp \in Inputs :
          \/ Menu(inp)
          \/ BrowseModule(inp)
          \/ BrowseClass(inp)
          \/ InitModule(inp)
          \/ InitClass(inp)
          \/ HelpModule(inp)

\* main() as run: module_instances starts empty
Spec == Init /\ [][Next]_vars

NextRun ==
    \/ Next
    \/ \E inp \in Inputs :
          \/ RunClass(inp)
          \/ RunMethod(inp)
          \/ RunParam(inp)

\* The run flow of the loop (option 3).  Under Spec it stops at "No modules
\* have been initialized yet": module_instances is filled only by the
\* statements after the try block of InitClass.  SpecRun enters main() with
\* instances already stored, to follow what option 3 does with them.
SpecRun == InitRun /\ [][NextRun]_vars

\* ------------------------------------------------------------------------
\* BinaryChecker called directly, with any list of required binaries
\* ------------------------------------------------------------------------

\* the binaries the lists of required_binaries_per_module name
GateBinaries == {"iptables", "ipset", "ssh"}

\* BinaryChecker(required_binaries): lists without repetition
RequiredLists ==
    {r \in UNION {[1..n -> GateBinaries] : n \in 0..MaxRequired} :
        \A i, j \in DOMAIN r : i # j => r[i] # r[j]}

\* no main() is running: only the checker is exercised
InitGate ==
    /\ tree = {}
    /\ visited = {}
    /\ pc = "probe"
    /\ err = NoErr
    /\ modules_dict = <<>>
    /\ mod_order = <<>>
    /\ module_instances = <<>>
    /\ inst_order = <<>>
    /\ gate_log = <<>>
    /\ executed = {}
    /\ loaded = {}
    /\ failed = {}
    /\ ctor_calls = <<>>
    /\ listing = <<>>
    /\ nav = NoNav
    /\ last_input = None
    /\ out = Say("start", None)
    /\ calls = <<>>
    /\ config = DefaultSettings
    /\ probe = NoProbe

\* BinaryChecker(required).check_binaries(), with what shutil.which resolves,
\* the operator's answer, platform.system() and the exit status the install
\* command of the i-th missing binary has
CheckBinariesCall(required, resolvable, answer, os_type, statuses) ==
    /\ pc = "probe"
    /\ pc' = "probed"
    /\ probe' = [fn |-> "check_binaries", required |-> required, resolvable |-> resolvable,
                 os_type |-> os_type, statuses |-> statuses,
                 result |-> CheckBinaries(required, resolvable, answer, os_type, statuses)]
    /\ UNCHANGED <<tree, visited, err, loaderVars, loopVars, config>>

NextGate ==
    \E required \in RequiredLists, resolvable \in SUBSET GateBinaries, answer \in Answers,
       os_type \in Platforms :
        \E statuses \in [1..Len(required) -> {0, 1}] :
            CheckBinariesCall(required, resolvable, answer, os_type, statuses)

\* BinaryChecker on its own
SpecGate == InitGate /\ [][NextGate]_vars

\* ------------------------------------------------------------------------
\* core/shared.py: the settings file, add_module_settings called directly
\* ------------------------------------------------------------------------

\* config.json does not exist
NoFile == [missing |-> TRUE]

\* what open(SETTINGS_FILE, 'w') and a json.dump that raised leave in the file:
\* the text written up to the value that has no encoding
Truncated == [partial |-> TRUE]

\* the names main() passes: those of the classes it initializes
SettingNames == {"WireGuardManager", "PAMUserManager"}

\* the parameters a settings dict has a value for
SettingParams == {"host", "port"}

Value(type, repr) == [type |-> type, repr |-> repr]

\* the values main() builds a settings dict from: f"default_{name}" for a
\* required parameter, the default of the parameter otherwise
PassedValues ==
    {Value("str", "default_host"), Value("int", "22"), Value("tuple", "22, 80"),
     Value("object", "PosixPath('/etc')")}

\* the settings dicts passed
SettingsDicts == UNION {[S -> PassedValues] : S \in SUBSET SettingParams}

\* JSONEncoder.default raises TypeError for a value of no JSON type
Serializable(v) == v.type \in {"str", "int", "tuple", "list"}

\* what json.load reads back from what json.dump wrote for v: an array is
\* read as a list, whether a tuple or a list was written
DumpLoad(v) == IF v.type = "tuple" THEN Value("list", v.repr) ELSE v

\* save_settings: the file after open(..., 'w') and json.dump(settings, file),
\* held as what json.load would read from it
SaveSettings(settings) ==
    IF \A n \in DOMAIN settings.modules :
          \A p \in DOMAIN settings.modules[n] : Serializable(settings.modules[n][p])
    THEN [exc |-> NoExc,
          file |-> [modules |->
                      [n \in DOMAIN settings.modules |->
                          [p \in DOMAIN settings.modules[n] |->
                              DumpLoad(settings.modules[n][p])]]]]
    ELSE [exc |-> "TypeError", file |-> Truncated]

\* load_settings: the dict returned, the exception raised, the file afterwards
LoadSettings(file) ==
    IF file = NoFile
    THEN [exc |-> NoExc, settings |-> DefaultSettings, file |-> SaveSettings(DefaultSettings).file]
    ELSE IF file = Truncated
    THEN [exc |-> "JSONDecodeError", settings |-> DefaultSettings, file |-> file]
    ELSE [exc |-> NoExc, settings |-> file, file |-> file]

\* add_module_settings: the dict returned (the object held by config, which
\* for a name just added is the dict passed), the exception, the file afterwards
AddModuleSettings(file, module_name, settings) ==
    LET l == LoadSettings(file)
    IN IF l.exc # NoExc
       THEN [exc |-> l.exc, result |-> <<>>, file |-> l.file]
       ELSE IF module_name \notin DOMAIN l.settings.modules
       THEN LET cfg == [modules |-> Put(l.settings.modules, module_name, settings)]
                s == SaveSettings(cfg)
            IN IF s.exc # NoExc
               THEN [exc |-> s.exc, result |-> <<>>, file |-> s.file]
               ELSE [exc |-> NoExc, result |-> cfg.modules[module_name], file |-> s.file]
       ELSE [exc |-> NoExc, result |-> l.settings.modules[module_name], file |-> l.file]

\* no main() is running; core.shared is about to be imported in a directory
\* without config.json
InitSettings ==
    /\ tree = {}
    /\ visited = {}
    /\ pc = "import"
    /\ err = NoErr
    /\ modules_dict = <<>>
    /\ mod_order = <<>>
    /\ module_instances = <<>>
    /\ inst_order = <<>>
    /\ gate_log = <<>>
    /\ executed = {}
    /\ loaded = {}
    /\ failed = {}
    /\ ctor_calls = <<>>
    /\ listing = <<>>
    /\ nav = NoNav
    /\ last_input = None
    /\ out = Say("start", None)
    /\ calls = <<>>
    /\ config = NoFile
    /\ probe = NoProbe

\* import of core.shared: its last line is settings = load_settings()
ImportShared ==
    /\ pc = "import"
    /\ pc' = "settings"
    /\ config' = LoadSettings(config).file
    /\ UNCHANGED <<tree, visited, err, loaderVars, loopVars, probe>>

\* shared.add_module_settings(module_name, settings), the caller going on
\* after an exception
AddModuleSettingsCall(module_name, settings) ==
    /\ pc = "settings"
    /\ LET r == AddModuleSettings(config, module_name, settings)
       IN /\ config' = r.file
          /\ probe' = [fn |-> "add_module_settings", module_name |-> module_name,
                       settings |-> settings, before |-> config, exc |-> r.exc,
                       result |-> r.result]
    /\ UNCHANGED <<tree, visited, pc, err, loaderVars, loopVars>>

NextSettings ==
    \/ ImportShared
    \/ \E module_name \in SettingNames, settings \in SettingsDicts :
          AddModuleSettingsCall(module_name, settings)

\* the settings store on its own
SpecSettings == InitSettings /\ [][NextSettings]_vars

\* ------------------------------------------------------------------------
\* Vocabulary of the properties
\* ------------------------------------------------------------------------

\* the classes a file defines (obj.__module__ is the file's module)
DefinedClasses(f) ==
    {c \in {FileDefs[f].members[i] : i \in 1..Len(FileDefs[f].members)} :
        c.kind = "class" /\ c.module = ModuleName(f)}

\* a file whose execution and extraction raise nothing
LoadsCleanly(f) ==
    /\ Eligible(f)
    /\ FileDefs[f].exec = NoExc
    /\ AddModuleToDict(f).exc = NoExc

\* the files the objects stored in a module_dict come from
FilesIn(module_dict) ==
    {IF "instance" \in DOMAIN module_dict[i].content
     THEN module_dict[i].content.instance.file
     ELSE module_dict[i].content.function.file : i \in 1..Len(module_dict)}

\* the constructor of c was called n times by the extraction of f
CtorCallCount(f, c) ==
    Cardinality({i \in 1..Len(ctor_calls) : ctor_calls[i] = [file |-> f, class |-> c.name]})

\* the registry holds the instance made from class c of file f
HoldsInstance(f, c) ==
    \E k \in DOMAIN modules_dict : \E i \in 1..Len(modules_dict[k]) :
        /\ "instance" \in DOMAIN modules_dict[k][i].content
        /\ modules_dict[k][i].content.instance = Instance(f, c)

\* the constructor has a parameter, after the receiver, that declares no default
HasMandatoryParam(c) ==
    /\ c.sig = NoExc
    /\ \E i \in 2..Len(c.init) : c.init[i].default = Empty

\* every parameter the class declares for its constructor, the receiver
\* excluded, has a default; a class that declares no constructor declares none
AllDefaults(c) ==
    /\ c.sig = NoExc
    /\ c.declaresInit => \A i \in 2..Len(c.init) : c.init[i].default # Empty

\* the prompts that read a number from a listing
SelectionPrompts ==
    {"browse_module", "browse_class", "init_module", "init_class", "help_module",
     "run_class", "run_method"}

\* the prompts that read the value of an argument
ArgumentPrompts == {"run_param"}

\* the reserved navigation inputs of the console
MainMenuInput == "menu"

BackInput == "back"

ExitInput == "5"

\* the texts a rejected selection is reported with
InvalidReports ==
    {"Invalid selection.", "No class selected. Returning to main menu.",
     "Error selecting or executing method"}

\* s is the number of one of the n items listed
InRange(s, n) == s \in DOMAIN IntTable /\ IntTable[s] \in 1..n

\* s is text int() rejects, or a number no index of a list of n items matches
Rejected(s, n) == s \notin DOMAIN IntTable \/ IntTable[s] > n \/ IntTable[s] <= -n

\* the method invoked by the latest step
Invoked == MethodOf(calls[1].instance, calls[1].method)

\* the values the latest step has taken as arguments
ArgumentValues ==
    {nav.args[i] : i \in 1..Len(nav.args)}
       \cup {nav.kwargs[i].value : i \in 1..Len(nav.kwargs)}
       \cup UNION {{calls[j].args[i] : i \in 1..Len(calls[j].args)}
                      \cup {calls[j].kwargs[i].value : i \in 1..Len(calls[j].kwargs)} :
                   j \in 1..Len(calls)}

\* ------------------------------------------------------------------------
\* Properties
\* ------------------------------------------------------------------------

\* C1: a file whose execution or extraction raises never stops the walk.  No
\* exception raised while loading a file ends the process, and once the walk is
\* over every file of the tree has been visited, the files stored are exactly
\* those that load cleanly, the registry's keys are exactly their keys, each
\* failing file is logged, and no object of a failing file is in the registry.
C1_LoaderIsolation ==
    /\ err.at \notin {"exec", "extract"}
    /\ (pc # "load" /\ err.at # "gate") =>
          /\ visited = tree
          /\ loaded = {f \in tree : LoadsCleanly(f)}
          /\ failed = {f \in tree : Eligible(f) /\ ~LoadsCleanly(f)}
          /\ executed = loaded \cup failed
          /\ DOMAIN modules_dict = {UniqueKey(f) : f \in loaded}
          /\ \A k \in DOMAIN modules_dict :
                FilesIn(modules_dict[k]) \subseteq {f \in loaded : UniqueKey(f) = k}

\* the walk is over for a tree with a file that raised and a file that loaded
C1_Witness ==
    /\ pc = "menu"
    /\ \E f \in failed : FileDefs[f].exec # NoExc
    /\ loaded # {}
    /\ DOMAIN modules_dict # {}

\* C2: a failed gate aborts the load of its unit only: the walk goes on to the
\* other files and the menu loop starts.
C2_GateFailureIsolated ==
    \A f \in DOMAIN gate_log :
        gate_log[f].exc # NoExc => (pc # "crashed" /\ (pc = "load" \/ visited = tree))

\* C3: the process ends only by the exit command: no unhandled exception ends
\* the loader or the menu loop.
C3_OnlyExplicitExit == pc # "crashed" /\ err = NoErr

\* C4: a class whose constructor has a parameter without a default is never
\* constructed by the extraction, and the registry never holds an instance of it.
C4_MandatoryNeverInstantiated ==
    \A f \in SourceFiles : \A c \in DefinedClasses(f) :
        HasMandatoryParam(c) => (CtorCallCount(f, c) = 0 /\ ~HoldsInstance(f, c))

\* a file defining such a class has been extracted and stored
C4_Witness ==
    \E f \in loaded : \E c \in DefinedClasses(f) :
        HasMandatoryParam(c) /\ c.declaresInit /\ UniqueKey(f) \in DOMAIN modules_dict

\* C5: a class whose declared constructor parameters all have defaults (a class
\* that declares none included) is constructed exactly once, without arguments,
\* by the extraction of its unit, and when that call returns the unit's entry
\* holds the instance.
C5_DefaultConstructibleInstantiated ==
    \A f \in loaded : \A c \in DefinedClasses(f) :
        AllDefaults(c) =>
            /\ CtorCallCount(f, c) = 1
            /\ (c.ctor = NoExc /\ FilesIn(modules_dict[UniqueKey(f)]) \subseteq {f})
                  => HoldsInstance(f, c)

\* C6: when the invoked method raises, the exception is caught, its message is
\* reported as an execution error and the loop is back at its menu prompt.
C6_InvocationErrorCaught ==
    (calls # <<>> /\ Invoked.exc # NoExc) =>
        /\ pc = "menu"
        /\ err = NoErr
        /\ out = Say("Error executing the function", Invoked.value)

\* a method was invoked and raised
C6_Witness ==
    /\ calls # <<>>
    /\ Invoked.exc # NoExc
    /\ pc = "menu"

C9_InvalidSelectsNothing ==
    [][(pc \in SelectionPrompts /\ ~InRange(last_input', Len(listing)))
        => /\ out'.msg \in InvalidReports
           /\ nav' = NoNav
           /\ calls' = <<>>
           /\ modules_dict' = modules_dict
           /\ module_instances' = module_instances]_vars

OwnKey(f) == \A g \in loaded : g # f => UniqueKey(g) # UniqueKey(f)

\* C11: the keys derived from distinct files are pairwise distinct, so no
\* loaded file overwrites another's entry and the registry holds one entry per
\* loaded file.
C11_KeysCollisionFree ==
    /\ \A f \in loaded : OwnKey(f)
    /\ Cardinality(DOMAIN modules_dict) = Cardinality(loaded)

\* every key a file of the model can be stored under
Keys == {KeysSorted[i] : i \in 1..Len(KeysSorted)}

\* C12: display_help is idempotent and read-only: the help printed for a unit
\* is what a second call for the same unit, made right after, prints, and the
\* call leaves the registry and the stored instances as they were.
C12_HelpIdempotentReadOnly ==
    [][(pc = "help_module" /\ out'.msg = "Help Documentation")
        => /\ modules_dict' = modules_dict
           /\ mod_order' = mod_order
           /\ module_instances' = module_instances
           /\ inst_order' = inst_order
           /\ \A k \in Keys :
                 k = Select(listing, last_input').item
                    => /\ out'.detail = DisplayHelp(k)
                       /\ DisplayHelp(k)' = DisplayHelp(k)]_vars

\* the help of a unit with a catalogued class was displayed
C12_Witness ==
    /\ pc = "menu"
    /\ out.msg = "Help Documentation"
    /\ \E i \in 1..Len(out.detail) :
          /\ "class" \in DOMAIN out.detail[i]
          /\ out.detail[i].methods # <<>>

\* the parameters of ps that declare no default, and those that declare one
Mandatory(ps) == SelectSeq(ps, LAMBDA q : q.default = Empty)

Optional(ps) == SelectSeq(ps, LAMBDA q : q.default # Empty)

Declining == {"n", ""}

\* C14: when a required binary of a unit is missing and the operator declines
\* the installation, the gate fails, no install command is run, the unit's
\* source is never executed and the registry never holds the unit.
C14_DeclinedGateFailsClosed ==
    \A f \in DOMAIN gate_log :
        (gate_log[f].missing # <<>> /\ gate_log[f].answer \in Declining)
            => /\ gate_log[f].exc = "RuntimeError"
               /\ gate_log[f].commands = <<>>
               /\ f \notin executed
               /\ f \notin loaded
               /\ UniqueKey(f) \notin DOMAIN modules_dict

\* the operator declined the installation of a missing binary
C14_Witness ==
    \E f \in DOMAIN gate_log :
        /\ gate_log[f].missing = <<"iptables">>
        /\ gate_log[f].prompted
        /\ gate_log[f].answer = "n"
        /\ f \in visited

\* the items of a numbered list
Listed(items) == {items[i] : i \in 1..Len(items)}

\* C15: operator-driven initialization.  The classes offered for a unit in the
\* initialize flow include its classes with a mandatory constructor parameter,
\* and selecting a listed class leads to the collection of the constructor's
\* arguments: it never ends the process.
C15_OperatorInitialization ==
    [][/\ pc = "init_class" =>
             \A f \in loaded :
                 (UniqueKey(f) = nav.module /\ OwnKey(f)) =>
                     \A c \in DefinedClasses(f) :
                         HasMandatoryParam(c) => c.name \in Listed(listing)
       /\ (pc = "init_class" /\ InRange(last_input', Len(listing)))
             => (pc' = "init_param" /\ err' = NoErr)]_vars

\* the instances main() holds
StoredInstances == {module_instances[c] : c \in DOMAIN module_instances}

\* C16: every class the run flow offers has a stored instance of it, the
\* class whose methods are being selected or whose arguments are being read
\* has one, and a method is only ever invoked on a stored instance.
C16_OfferedHaveInstance ==
    /\ pc = "run_class" =>
          \A c \in Listed(listing) :
              c \in DOMAIN module_instances /\ module_instances[c].cls = c
    /\ pc \in {"run_method", "run_param"} => nav.class \in DOMAIN module_instances
    /\ \A i \in 1..Len(calls) : calls[i].instance \in StoredInstances

\* a method was invoked on the stored instance of a class that the extraction
\* does not instantiate
C16_Witness ==
    /\ calls # <<>>
    /\ calls[1].instance = module_instances["PAMUserManager"]
    /\ ~HoldsInstance("pam/user_manager.py", PAMUserManager)

\* C17: signature classification.  A parameter counts as mandatory exactly
\* when it declares no default, and the receiver is never counted or prompted
\* for: the extraction leaves a class unconstructed, as requiring arguments,
\* exactly when a parameter after the receiver declares no default, and every
\* parameter of a bound method is prompted for, in declaration order.
C17_SignatureClassification ==
    /\ \A f \in loaded : \A c \in DefinedClasses(f) :
          c.sig = NoExc => ((CtorCallCount(f, c) = 0) <=> HasMandatoryParam(c))
    /\ \A f \in SourceFiles : \A c \in DefinedClasses(f) :
          \A i \in 1..Len(c.functions) :
              Prompted(c.functions[i].params) = c.functions[i].params

\* the entries stored for file f under the name of class c
EntriesOf(f, c) ==
    {e \in Listed(modules_dict[UniqueKey(f)]) : e.name = c.name}

\* C18: every class a loaded unit defines has an entry in the unit's
\* module_dict; a class left unconstructed for a mandatory parameter, or whose
\* constructor raised, has an entry with no instance and no methods.
C18_EveryClassCatalogued ==
    \A f \in loaded :
        OwnKey(f) =>
            \A c \in DefinedClasses(f) :
                /\ EntriesOf(f, c) # {}
                /\ (CtorCallCount(f, c) = 0 \/ c.ctor # NoExc) =>
                      \A e \in EntriesOf(f, c) :
                          /\ "instance" \notin DOMAIN e.content
                          /\ "methods" \in DOMAIN e.content => e.content.methods = <<>>

\* the names of the public methods class c defines
PublicMethodNames(c) ==
    {c.functions[i].name : i \in {j \in 1..Len(c.functions) :
                                     ~StartsWithUnderscore(c.functions[j].name)}}

\* the names in the method catalogue of entry e
CataloguedMethodNames(e) == Listed(Names(e.content.methods))

\* C19: the method catalogue stored for an instantiated class has one entry
\* for each public method the class defines and no entry whose name starts
\* with an underscore, the constructor's included.
C19_PublicMethodsCatalogued ==
    \A f \in loaded :
        OwnKey(f) =>
            \A c \in DefinedClasses(f) : \A e \in EntriesOf(f, c) :
                "methods" \in DOMAIN e.content =>
                    /\ CataloguedMethodNames(e) = PublicMethodNames(c)
                    /\ Len(e.content.methods) = Cardinality(PublicMethodNames(c))

\* the classes the namespace of file f holds that another module declares
ImportedClasses(f) ==
    {c \in Listed(FileDefs[f].members) : c.kind = "class" /\ c.module # ModuleName(f)}

DefinedFunctions(f) ==
    {m \in Listed(FileDefs[f].members) : m.kind = "function" /\ m.module = ModuleName(f)}

\* the entries of a module_dict that hold a function
FunctionEntries(module_dict) ==
    {e \in Listed(module_dict) : "function" \in DOMAIN e.content}

\* C21: the functions catalogued for a unit are exactly the functions the unit
\* defines at its top level, each with its documentation: a function imported
\* into the unit's namespace is not catalogued.
C21_OwnFunctionsCatalogued ==
    \A f \in loaded :
        OwnKey(f) =>
            /\ {e.name : e \in FunctionEntries(modules_dict[UniqueKey(f)])}
                  = {m.name : m \in DefinedFunctions(f)}
            /\ \A m \in DefinedFunctions(f) :
                  \E e \in FunctionEntries(modules_dict[UniqueKey(f)]) :
                      e.name = m.name /\ e.content.help = m.doc

\* C22: a method selected in the run flow whose signature has no parameter is
\* invoked in that same step, once, without arguments and without any
\* argument prompt; when it returns, its result is displayed, or the no-output
\* notice when it returns nothing.
C22_NoParameterInvokedAtOnce ==
    [][(pc = "run_method" /\ Select(listing, last_input').exc = NoExc) =>
          LET m == MethodOf(module_instances[nav.class], Select(listing, last_input').item)
          IN (m.sig = NoExc /\ m.params = <<>>) =>
                /\ calls' = <<[instance |-> module_instances[nav.class], method |-> m.name,
                               args |-> <<>>, kwargs |-> <<>>]>>
                /\ pc' # "run_param"
                /\ (m.exc = NoExc /\ m.value # None) => out' = Say("Result", m.value)
                /\ (m.exc = NoExc /\ m.value = None)
                      => out'.msg = "Result: No output returned."]_vars

\* a method without parameters returned a result, which was displayed
C22_Witness ==
    /\ calls # <<>>
    /\ calls[1].args = <<>> /\ calls[1].kwargs = <<>>
    /\ Invoked.params = <<>>
    /\ out = Say("Result", "wg0: up")

Accepting == {"y", " Y "}

\* the platforms install_binary has a command for
Supported == {"Linux", "Darwin"}

\* the first missing binary whose install command exits with a status other
\* than zero, or 0
FirstFailure(statuses, n) ==
    IF \E i \in 1..n : statuses[i] # 0
    THEN CHOOSE i \in 1..n : statuses[i] # 0 /\ \A j \in 1..(i - 1) : statuses[j] = 0
    ELSE 0

\* C24: when the operator accepts the installation, the gate passes exactly
\* when an install command was run for every missing binary, in order, and
\* each exited with status zero.  On a platform other than Linux and Darwin no
\* command is run and the gate fails; when a command exits with another
\* status the gate fails and no command is run for the binaries after it.
C24_InstallAllOrFail ==
    (probe.fn = "check_binaries" /\ probe.result.missing # <<>>
        /\ probe.result.answer \in Accepting) =>
        LET r == probe.result
            n == Len(r.missing)
            k == FirstFailure(probe.statuses, n)
        IN /\ r.exc \in {NoExc, "RuntimeError"}
           /\ \A i \in 1..Len(r.commands) :
                 r.commands[i].argv[Len(r.commands[i].argv)] = r.missing[i]
           /\ (r.exc = NoExc) <=>
                 (Len(r.commands) = n /\ \A i \in 1..n : r.commands[i].status = 0)
           /\ probe.os_type \notin Supported => (r.exc # NoExc /\ r.commands = <<>>)
           /\ (probe.os_type \in Supported /\ k # 0) =>
                 /\ r.exc # NoExc
                 /\ Len(r.commands) = k
                 /\ r.commands[k].status # 0

\* two binaries are missing, the installation is accepted and the first
\* install command fails: none is run for the second
C24_Witness ==
    /\ probe.fn = "check_binaries"
    /\ Len(probe.result.missing) = 2
    /\ probe.result.answer \in Accepting
    /\ probe.os_type = "Linux"
    /\ probe.statuses[1] = 1
    /\ Len(probe.result.commands) = 1
    /\ probe.result.exc = "RuntimeError"

\* file f defines a class whose constructor signature cannot be determined
HasOpaqueClass(f) == \E c \in DefinedClasses(f) : c.sig # NoExc

\* C25: a callable whose signature cannot be determined is taken to have no
\* parameters.  A unit that defines such a class is still loaded, with its
\* functions catalogued, and selecting such a method invokes it without
\* arguments instead of ending the loop.
C25_UnknownSignatureIsEmpty ==
    [][/\ \A f \in visited' :
             (Eligible(f) /\ FileDefs[f].exec = NoExc /\ HasOpaqueClass(f)) =>
                 /\ f \in loaded'
                 /\ OwnKey(f)' =>
                       \A m \in DefinedFunctions(f) :
                           \E e \in FunctionEntries(modules_dict'[UniqueKey(f)]) :
                               e.name = m.name
       /\ (pc = "run_method" /\ Select(listing, last_input').exc = NoExc) =>
             LET m == MethodOf(module_instances[nav.class], Select(listing, last_input').item)
             IN m.sig # NoExc =>
                   /\ pc' # "crashed"
                   /\ calls' = <<[instance |-> module_instances[nav.class],
                                  method |-> m.name, args |-> <<>>, kwargs |-> <<>>]>>]_vars

\* the registry and the stored instances, with the order of their keys
RegistryAndInstances == <<modules_dict, mod_order, module_instances, inst_order>>

\* C26: a step of the loop changes the registry or the stored instances only
\* when it is an initialization whose constructor returned; browsing, help,
\* a rejected selection, an invalid menu choice and an invocation leave both
\* as they were.
C26_OnlyInitializationMutates ==
    [][pc # "load" =>
          /\ RegistryAndInstances' # RegistryAndInstances
                => (pc = "init_param" /\ out'.msg = "initialized")
          /\ (pc \in {"browse_module", "browse_class", "help_module"}
                \/ out'.msg \in InvalidReports \cup {"Invalid choice."})
                => RegistryAndInstances' = RegistryAndInstances]_vars

\* an invalid menu choice was made while the registry and the stored
\* instances were not empty
C26_Witness ==
    /\ pc = "menu"
    /\ out.msg = "Invalid choice."
    /\ modules_dict # <<>>
    /\ module_instances # <<>>

\* the extraction of file f raises after it has processed some member
RaisesPartWay(f) ==
    \E i \in 2..Len(FileDefs[f].members) :
        /\ FileDefs[f].members[i].kind = "class"
        /\ FileDefs[f].members[i].module = ModuleName(f)
        /\ FileDefs[f].members[i].sig # NoExc

\* C27: extraction is all-or-nothing per unit.  A unit whose extraction raises
\* part-way is not loaded and no registry entry holds anything of it; the step
\* that fails leaves the registry as it was, and a step that changes the
\* registry stores the entry of one newly loaded unit and leaves every other
\* entry as it was.
C27_ExtractionAllOrNothing ==
    [][/\ \A f \in visited' :
             (Eligible(f) /\ FileDefs[f].exec = NoExc /\ RaisesPartWay(f)) =>
                 /\ f \notin loaded'
                 /\ \A k \in DOMAIN modules_dict' : f \notin FilesIn(modules_dict'[k])
                 /\ (\A g \in tree : UniqueKey(g) = UniqueKey(f) => g = f)
                       => UniqueKey(f) \notin DOMAIN modules_dict'
       /\ failed' # failed => (modules_dict' = modules_dict /\ mod_order' = mod_order)
       /\ modules_dict' # modules_dict =>
             \E f \in loaded' \ loaded :
                 /\ loaded' = loaded \cup {f}
                 /\ DOMAIN modules_dict' = DOMAIN modules_dict \cup {UniqueKey(f)}
                 /\ \A k \in DOMAIN modules_dict :
                       k # UniqueKey(f) => modules_dict'[k] = modules_dict[k]]_vars

\* a unit failed in its extraction after one of its classes had been
\* constructed, while the registry held the entry of another unit
C27_Witness ==
    \E f \in failed :
        /\ RaisesPartWay(f)
        /\ \E i \in 1..Len(ctor_calls) : ctor_calls[i].file = f
        /\ UniqueKey(f) \notin DOMAIN modules_dict
        /\ modules_dict # <<>>

\* the install command of binary b exited with status zero in gate run g
InstalledIn(g, b) ==
    \E i \in 1..Len(g.commands) :
        /\ g.commands[i].argv[Len(g.commands[i].argv)] = b
        /\ g.commands[i].status = 0

\* C28: the gate precedes the load.  A file whose name has declared required
\* binaries is executed only after its gate has run and returned, and then every
\* declared binary either resolved on the search path or had its install
\* command exit with status zero; for a name without declared binaries the
\* gate never prompts the operator, and no gate run is recorded for its file.
C28_GatePrecedesLoad ==
    /\ \A f \in executed :
          RequiredFor(ModuleName(f)) # <<>> =>
              /\ f \in DOMAIN gate_log
              /\ gate_log[f].exc = NoExc
              /\ \A i \in 1..Len(RequiredFor(ModuleName(f))) :
                    LET b == RequiredFor(ModuleName(f))[i]
                    IN \/ \A j \in 1..Len(gate_log[f].missing) : gate_log[f].missing[j] # b
                       \/ InstalledIn(gate_log[f], b)
    /\ \A f \in loaded :
          RequiredFor(ModuleName(f)) = <<>> =>
              /\ f \notin DOMAIN gate_log
              /\ \A res \in SUBSET GateBinaries, a \in Answers, os \in Platforms :
                    ~CheckModuleBinaries(ModuleName(f), res, a, os, <<>>).prompted

\* a gated file was executed after the operator agreed to the installation of
\* its missing binary, and a file without declared binaries is loaded too
C28_Witness ==
    /\ \E f \in executed :
          /\ RequiredFor(ModuleName(f)) # <<>>
          /\ gate_log[f].prompted
          /\ gate_log[f].missing # <<>>
          /\ InstalledIn(gate_log[f], gate_log[f].missing[1])
    /\ \E f \in loaded : RequiredFor(ModuleName(f)) = <<>>

\* the place of a key in the sorted order of all keys
KeyRank(k) == CHOOSE i \in 1..Len(KeysSorted) : KeysSorted[i] = k

\* the step taken from a selection prompt has selected item x of the listing
ShowsSelected(x) ==
    CASE pc = "browse_module" ->
             \/ pc' = "browse_class" /\ nav'.module = x
             \/ pc' = "menu" /\ out'.msg = "No classes available to drill down further."
                  /\ out'.detail.module = x
      [] pc = "browse_class" ->
             /\ out'.msg = "Methods in class"
             /\ out'.detail.module = nav.module
             /\ out'.detail.class = x
      [] pc = "init_module" ->
             /\ pc' = "init_class"
             /\ nav'.module = x
             /\ listing' = ClassesOf(modules_dict[x])
      [] pc = "init_class" ->
             \/ pc' = "init_param" /\ nav'.class = x
             \/ pc' = "crashed" /\ err'.at = "init_class" /\ err'.exc = "KeyError"
      [] pc = "help_module" ->
             /\ out'.msg = "Help Documentation"
             /\ out'.detail = HelpItems(modules_dict[x])
      [] pc = "run_class" ->
             /\ pc' = "run_method"
             /\ nav'.class = x
             /\ listing' = CallableNames(module_instances[x])
      [] pc = "run_method" ->
             \/ pc' = "run_param" /\ nav'.method = x
             \/ pc' = "menu" /\ Len(calls') = 1 /\ calls'[1].method = x
                  /\ calls'[1].instance = module_instances[nav.class]
             \/ pc' = "crashed" /\ err'.at = "signature"
                  /\ MethodOf(module_instances[nav.class], x).sig # NoExc

HadSettings == probe.module_name \in DOMAIN probe.before.modules

\* C30: add_module_settings never overwrites.  When settings were persisted
\* under the name, the call returns them and leaves the configuration as it
\* was, whatever settings are passed; when none were, the call returns the
\* settings passed and the configuration then holds them under the name, every
\* other entry as before, so that the next call with the name returns them.
C30_NeverOverwrites ==
    (probe.fn = "add_module_settings" /\ probe.before # Truncated) =>
        /\ probe.exc = NoExc
        /\ IF HadSettings
           THEN /\ probe.result = probe.before.modules[probe.module_name]
                /\ config = probe.before
           ELSE /\ probe.result = probe.settings
                /\ config # Truncated
                /\ DOMAIN config.modules = DOMAIN probe.before.modules \cup {probe.module_name}
                /\ config.modules[probe.module_name] = probe.settings
                /\ \A n \in DOMAIN probe.before.modules :
                      config.modules[n] = probe.before.modules[n]

====
